---- MODULE Spec2Model ----
(***************************************************************************)
(* A model of the InjectHooks class of fidian/inject-hooks (version 1.4.0, *)
(* src/unnamed/part_001): the interceptor store, the resolver              *)
(* (_getInterceptors, _verifyInterceptors, _separateInterceptors,          *)
(* _orderInterceptors, _getOrderedInterceptors), the cache of resolved     *)
(* chains and the deferred, continuation-passing execution of a chain.     *)
(*                                                                         *)
(* JavaScript Maps and Sets iterate in insertion order, so both are        *)
(* modelled as sequences.  Arrays are objects: the cache and the running   *)
(* emissions hold references into the heap `arrays`.                        *)
(***************************************************************************)
EXTENDS Integers, Sequences, FiniteSets, TLC

\* ------------------------------------------------------------------------
\* Universe of the model
\* ------------------------------------------------------------------------

\* Concrete event names (typeof name === "string").
Names == {"x", "y"}

\* Predicate functions (typeof name === "function"), named by what they accept.
Filters == {"fx", "fany"}

\* name(n) for a predicate `name`.
Accepts(f, n) == IF f = "fx" THEN n = "x" ELSE f = "fany"

\* The Symbol under which every predicate-keyed record is stored.
InjectHooksFilter == "Symbol(InjectHooksFilter)"

\* Interceptor ids.
InjectHooksId == {"a", "b", "c"}

\* Handler functions: "h1" and "h2" only observe their arguments; "hemit" is
\* (data) => hooks.emit("y", data); "hon" is () => hooks.on("x", h2).
HandlerFns == {"h1", "h2", "hemit", "hon"}

\* What Map.prototype.get returns for an absent key (no array reference).
Undefined == 0

\* How many records the interceptor store holds at most.
MaxRecs == 2

\* How many emit calls a behaviour makes at most.
MaxEmits == 2

\* How many handler registrations exist at most.
MaxHandlers == 1

\* How many handler registrations exist at most where handlers are also
\* removed, the two of a once call included.
MaxListeners == 3

\* How many emissions the timer queue and its record hold at most, the ones
\* emitted from inside a handler included.
MaxQueue == 3

\* ------------------------------------------------------------------------
\* Helpers on sequences used as Maps / Sets / arrays
\* ------------------------------------------------------------------------

Range(s) == {s[i] : i \in DOMAIN s}

\* Map.prototype.has on a Map<id, info> kept as a sequence of infos.
MapHas(map, id) == \E i \in DOMAIN map : map[i].id = id

\* Map.prototype.get on a Map<id, info>.
MapGet(map, id) == map[CHOOSE i \in DOMAIN map : map[i].id = id]

\* Map.prototype.delete on a Map<id, info>.
MapDelete(map, id) == SelectSeq(map, LAMBDA info : info.id # id)

\* A sequence without its k-th element: Array.prototype.splice(k, 1).
Without(s, k) == [i \in 1..(Len(s) - 1) |-> IF i < k THEN s[i] ELSE s[i + 1]]

\* Index of `key` in a Map<key, value> kept as a sequence of [key, val]
\* entries; 0 when the key is absent.
EntryIndex(m, key) ==
    IF \E i \in DOMAIN m : m[i].key = key
    THEN CHOOSE i \in DOMAIN m : m[i].key = key
    ELSE 0

\* this._interceptors.get(key) || []  (and the same for this._handlers)
EntryGet(m, key) == IF EntryIndex(m, key) = 0 THEN <<>> ELSE m[EntryIndex(m, key)].val

\* Map.prototype.set: replaces in place, or appends a new key.
EntrySet(m, key, val) ==
    IF EntryIndex(m, key) = 0
    THEN Append(m, [key |-> key, val |-> val])
    ELSE [m EXCEPT ![EntryIndex(m, key)].val = val]

\* Map.prototype.delete on the outer Map that leaves the key in place with
\* nothing under it.
EntryDeleteEmptied(m, key) == EntrySet(m, key, <<>>)

\* Map.prototype.delete on the outer Map.
EntryDelete(m, key) == SelectSeq(m, LAMBDA e : e.key # key)

\* ------------------------------------------------------------------------
\* Condition normalizer (the toArray closure of inject)
\* ------------------------------------------------------------------------

\* A constraint field as the caller passes it: omitted, one id, or an array.
Omitted == [t |-> "undefined", v |-> <<>>]
One(id) == [t |-> "scalar", v |-> <<id>>]
Arr(s) == [t |-> "array", v |-> s]

\* toArray without its last line: a single id is not wrapped.
toArrayListsOnly(a) == IF a.t = "array" THEN a.v ELSE <<>>

toArray(a) ==
    IF a.t = "array" THEN a.v
    ELSE IF a.t = "undefined" THEN <<>>
    ELSE <<a.v[1]>>

\* conditions.order || "mid"
OrderOrMid(o) == IF o = "undefined" THEN "mid" ELSE o

Normalize(conditions) ==
    [after |-> toArray(conditions.after),
     before |-> toArray(conditions.before),
     conflicts |-> toArray(conditions.conflicts),
     depends |-> toArray(conditions.depends),
     order |-> OrderOrMid(conditions.order)]

\* ------------------------------------------------------------------------
\* Resolver
\* ------------------------------------------------------------------------

Ok(v) == [err |-> "none", val |-> v]
Err(kind) == [err |-> kind, val |-> <<>>]

\* The loop of _getInterceptors over the predicate-keyed records.
RECURSIVE MergeFilters(_, _, _)
MergeFilters(result, rest, name) ==
    IF rest = <<>> THEN Ok(result)
    ELSE LET info == Head(rest) IN
         IF info.name \in Filters /\ Accepts(info.name, name)
         THEN IF MapHas(result, info.id)
              THEN Err("DuplicateId")
              ELSE MergeFilters(Append(result, info), Tail(rest), name)
         ELSE MergeFilters(result, Tail(rest), name)

\* _getInterceptors without its result.has(id) test.
GetInterceptorsUnchecked(store, name) ==
    Ok(EntryGet(store, name) \o
       SelectSeq(EntryGet(store, InjectHooksFilter),
                 LAMBDA info : info.name \in Filters /\ Accepts(info.name, name)))

\* The candidate pool of a name: its own records, then the matching
\* predicate-keyed records.
GetInterceptors(store, name) ==
    MergeFilters(EntryGet(store, name), EntryGet(store, InjectHooksFilter), name)

\* One record's share of _verifyInterceptors.
MissingDepend(map, info) ==
    \E k \in DOMAIN info.conditions.depends : ~MapHas(map, info.conditions.depends[k])
PresentConflict(map, info) ==
    \E k \in DOMAIN info.conditions.conflicts : MapHas(map, info.conditions.conflicts[k])

\* _verifyInterceptors without its conflicts loop.
VerifyInterceptorsDependsOnly(map) ==
    IF \E i \in DOMAIN map : MissingDepend(map, map[i]) THEN "MissingDependency" ELSE "none"

\* _verifyInterceptors looking for the ids among the records of the bucket of
\* the record only.
VerifyInterceptorsSameBucket(map) ==
    LET Bucket(info) == SelectSeq(map, LAMBDA o : o.conditions.order = info.conditions.order)
        bad == {i \in DOMAIN map : \/ MissingDepend(Bucket(map[i]), map[i])
                                   \/ PresentConflict(Bucket(map[i]), map[i])}
    IN IF bad = {} THEN "none"
       ELSE LET i == CHOOSE j \in bad : \A k \in bad : j <= k
            IN IF MissingDepend(Bucket(map[i]), map[i]) THEN "MissingDependency"
               ELSE "Conflict"

\* Records are visited in Map order; for each, every depends id is checked
\* before any conflicts id; the first failure is thrown.
VerifyInterceptors(map) ==
    LET bad == {i \in DOMAIN map : MissingDepend(map, map[i]) \/ PresentConflict(map, map[i])}
    IN IF bad = {} THEN "none"
       ELSE LET i == CHOOSE j \in bad : \A k \in bad : j <= k
            IN IF MissingDepend(map, map[i]) THEN "MissingDependency" ELSE "Conflict"

\* _separateInterceptors with the pre and post buckets exchanged.
SeparateInterceptorsSwapped(map) ==
    [pre |-> SelectSeq(map, LAMBDA info : info.conditions.order = "post"),
     post |-> SelectSeq(map, LAMBDA info : info.conditions.order = "pre"),
     mid |-> SelectSeq(map, LAMBDA info : info.conditions.order \notin {"pre", "post"})]

\* _separateInterceptors with every record put into mid.
SeparateInterceptorsAllMid(map) == [pre |-> <<>>, post |-> <<>>, mid |-> map]

SeparateInterceptors(map) ==
    [pre |-> SelectSeq(map, LAMBDA info : info.conditions.order = "pre"),
     post |-> SelectSeq(map, LAMBDA info : info.conditions.order = "post"),
     mid |-> SelectSeq(map, LAMBDA info : info.conditions.order \notin {"pre", "post"})]

\* The wait set without the loop over conditions.before.
WaitSetAfterOnly(map, unresolved) ==
    LET U == Range(unresolved) IN
    {id \in U : \E k \in DOMAIN MapGet(map, id).conditions.after :
                    MapGet(map, id).conditions.after[k] \in U}

\* The wait set of one pass of _orderInterceptors.
WaitSet(map, unresolved) ==
    LET U == Range(unresolved) IN
    {id \in U : \E k \in DOMAIN MapGet(map, id).conditions.after :
                    MapGet(map, id).conditions.after[k] \in U}
    \cup
    {b \in U : \E id \in U : \E k \in DOMAIN MapGet(map, id).conditions.before :
                    MapGet(map, id).conditions.before[k] = b}

\* The do/while loop of _orderInterceptors.  unresolvedLastSize is assigned
\* once, before the loop.  A pass that removes nothing while the loop
\* condition stays true repeats the same pass for ever: "Hang".
RECURSIVE OrderLoop(_, _, _, _)
OrderLoop(map, unresolved, result, unresolvedLastSize) ==
    LET wait == WaitSet(map, unresolved)
        out == SelectSeq(unresolved, LAMBDA id : id \notin wait)
        left == SelectSeq(unresolved, LAMBDA id : id \in wait)
        res == result \o [i \in 1..Len(out) |-> MapGet(map, out[i]).injector]
    IN IF Len(left) # unresolvedLastSize /\ Len(left) # 0
       THEN IF out = <<>> THEN Err("Hang")
            ELSE OrderLoop(map, left, res, unresolvedLastSize)
       ELSE IF Len(left) # 0 THEN [err |-> "Circular", val |-> left]
            ELSE Ok(res)

\* _orderInterceptors giving up after one pass: whatever the first pass left
\* is reported as circular.
OrderInterceptorsOnePass(map) ==
    LET unresolved == [i \in 1..Len(map) |-> map[i].id]
        wait == WaitSet(map, unresolved)
        out == SelectSeq(unresolved, LAMBDA id : id \notin wait)
        left == SelectSeq(unresolved, LAMBDA id : id \in wait)
    IN IF Len(left) # 0 THEN [err |-> "Circular", val |-> left]
       ELSE Ok([i \in 1..Len(out) |-> MapGet(map, out[i]).injector])

\* _orderInterceptors going through the ids from the last registered to the
\* first.
OrderInterceptorsLastFirst(map) ==
    OrderLoop(map, [i \in 1..Len(map) |-> map[Len(map) + 1 - i].id], <<>>, Len(map))

OrderInterceptors(map) ==
    OrderLoop(map, [i \in 1..Len(map) |-> map[i].id], <<>>, Len(map))

\* The uncached part of _getOrderedInterceptors: pool, verification,
\* buckets, ordering of pre, mid and post in that order, concatenation.
ResolveFresh(store, name) ==
    LET got == GetInterceptors(store, name) IN
    IF got.err # "none" THEN Err(got.err)
    ELSE LET v == VerifyInterceptors(got.val) IN
         IF v # "none" THEN Err(v)
         ELSE LET sep == SeparateInterceptors(got.val)
                  pre == OrderInterceptors(sep.pre)
              IN IF pre.err # "none" THEN Err(pre.err)
                 ELSE LET mid == OrderInterceptors(sep.mid) IN
                      IF mid.err # "none" THEN Err(mid.err)
                      ELSE LET post == OrderInterceptors(sep.post) IN
                           IF post.err # "none" THEN Err(post.err)
                           ELSE Ok(pre.val \o mid.val \o post.val)

\* ------------------------------------------------------------------------
\* State
\* ------------------------------------------------------------------------

VARIABLES
    interceptors,         \* this._interceptors: Map<key, Map<id, info>>
    handlers,             \* this._handlers: Map<key, handlerInfo[]>
    interceptorsOrdered,  \* this._interceptorsOrdered: name -> array reference
    arrays,               \* the heap of resolved-chain arrays
    emissions,            \* the emit calls that scheduled a timer: those still running,
                          \* and those that ended since the store was last changed
    last,                 \* the latest call on the store or the resolver and how it ended
    firstRes              \* per name, the first resolution since the store was last touched

vars == <<interceptors, handlers, interceptorsOrdered, arrays, emissions, last, firstRes>>

\* References into the heap: one per cache entry and one per emission suffices.
Refs == 1..(Cardinality(Names) + MaxQueue)

Free == [live |-> FALSE, items |-> <<>>]

NoFirst == [set |-> FALSE, val |-> <<>>, again |-> FALSE]

Call(op, name, err, ret) == [op |-> op, name |-> name, err |-> err, ret |-> ret]

\* A non-terminating call never returns: nothing runs after it.
Hung == last.err = "Hang" \/ \E e \in DOMAIN emissions : emissions[e].err = "Hang"

\* References an emission still holds: the closure of runNext keeps the array
\* while an interceptor has yet to call its continuation.
Holds(em, r) == em.st = "waiting" /\ em.arr = r

\* Arrays nobody references any more are garbage.
Collect(arrs, cache, ems) ==
    [r \in Refs |->
        IF (\E n \in Names : cache[n] = r) \/ (\E e \in DOMAIN ems : Holds(ems[e], r))
        THEN arrs[r] ELSE Free]

\* An emission has ended once no continuation of it is outstanding: it
\* dispatched, an interceptor withheld its continuation, or its timer callback
\* threw.
Ended(em) == em.st \in {"dispatched", "halted", "threw", "aborted"}

\* A change of the store closes the record of the emissions that ended before
\* it and marks the running ones as begun under an older store.
Touch(ems) ==
    LET running == SelectSeq(ems, LAMBDA em : ~Ended(em))
    IN [e \in DOMAIN running |-> [running[e] EXCEPT !.dirty = TRUE]]

TotalRecs(store) ==
    LET RECURSIVE Sum(_)
        Sum(i) == IF i = 0 THEN 0 ELSE Len(store[i].val) + Sum(i - 1)
    IN Sum(Len(store))

TotalHandlers(hs) ==
    LET RECURSIVE Sum(_)
        Sum(i) == IF i = 0 THEN 0 ELSE Len(hs[i].val) + Sum(i - 1)
    IN Sum(Len(hs))


Init ==
    /\ interceptors = <<>>
    /\ handlers = <<>>
    /\ interceptorsOrdered = [n \in Names |-> Undefined]
    /\ arrays = [r \in Refs |-> Free]
    /\ emissions = <<>>
    /\ last = Call("new", "", "none", <<>>)
    /\ firstRes = [n \in Names |-> NoFirst]

\* ------------------------------------------------------------------------
\* _getOrderedInterceptors on the state
\* ------------------------------------------------------------------------

\* _getOrderedInterceptors storing an empty chain for a name whose
\* resolution throws.
GetOrderedInterceptorsKeepsFailure(store, cache, arrs, name) ==
    IF cache[name] # Undefined
    THEN [err |-> "none", ref |-> cache[name], cache |-> cache, arrays |-> arrs,
          fresh |-> FALSE]
    ELSE LET r == ResolveFresh(store, name)
             ref == CHOOSE q \in Refs :
                        ~arrs[q].live /\ \A p \in Refs : ~arrs[p].live => q <= p
         IN [err |-> r.err, ref |-> ref,
             cache |-> [cache EXCEPT ![name] = ref],
             arrays |-> [arrs EXCEPT ![ref] = [live |-> TRUE, items |-> r.val]],
             fresh |-> TRUE]

\* An array is truthy even when empty: any cache entry is returned as is.
GetOrderedInterceptors(store, cache, arrs, name) ==
    IF cache[name] # Undefined
    THEN [err |-> "none", ref |-> cache[name], cache |-> cache, arrays |-> arrs,
          fresh |-> FALSE]
    ELSE LET r == ResolveFresh(store, name) IN
         IF r.err # "none"
         THEN [err |-> r.err, ref |-> Undefined, cache |-> cache, arrays |-> arrs,
               fresh |-> FALSE]
         ELSE LET ref == CHOOSE q \in Refs :
                            ~arrs[q].live /\ \A p \in Refs : ~arrs[p].live => q <= p
              IN [err |-> "none", ref |-> ref,
                  cache |-> [cache EXCEPT ![name] = ref],
                  arrays |-> [arrs EXCEPT ![ref] = [live |-> TRUE, items |-> r.val]],
                  fresh |-> TRUE]

\* What a resolution returned, as the caller sees it at the moment of return.
Returned(g) == IF g.err = "none" THEN g.arrays[g.ref].items ELSE <<>>

\* Bookkeeping of the first resolution of a name since the store was touched.
NoteFirst(fr, name, g) ==
    IF g.err # "none" THEN fr
    ELSE IF fr[name].set
         THEN [fr EXCEPT ![name].again = fr[name].again \/ g.fresh]
         ELSE [fr EXCEPT ![name] = [set |-> TRUE, val |-> Returned(g), again |-> FALSE]]

\* ------------------------------------------------------------------------
\* Public operations on the interceptor store
\* ------------------------------------------------------------------------

MapKey(name) == IF name \in Filters THEN InjectHooksFilter ELSE name

\* An inject that clears the whole cache whatever the key.
InjectInvalidateAll(cache, name) == [n \in Names |-> Undefined]

\* The cache invalidation at the top of inject.
InjectInvalidate(cache, name) ==
    IF name \in Filters THEN [n \in Names |-> Undefined]
    ELSE [cache EXCEPT ![name] = Undefined]

\* The cache invalidation at the top of remove: delete(key), where key is the
\* Symbol for a predicate, under which no cache entry is ever stored.
RemoveInvalidate(cache, name) ==
    IF MapKey(name) \in Names THEN [cache EXCEPT ![MapKey(name)] = Undefined]
    ELSE cache

inject(name, id, injector, conditions) ==
    LET cache == InjectInvalidate(interceptorsOrdered, name)
        map == EntryGet(interceptors, MapKey(name))
        info == [id |-> id, injector |-> injector, name |-> name,
                 conditions |-> Normalize(conditions)]
    IN /\ ~Hung
       /\ interceptorsOrdered' = cache
       /\ arrays' = Collect(arrays, cache, emissions)
       /\ firstRes' = [n \in Names |-> NoFirst]
       /\ UNCHANGED handlers
       /\ IF MapHas(map, id)
          THEN /\ last' = Call("inject", name, "DuplicateId", <<>>)
               /\ UNCHANGED <<interceptors, emissions>>
          ELSE /\ interceptors' = EntrySet(interceptors, MapKey(name), Append(map, info))
               /\ emissions' = Touch(emissions)
               /\ last' = Call("inject", name, "none", <<>>)

remove(name, id) ==
    LET cache == RemoveInvalidate(interceptorsOrdered, name)
        key == MapKey(name)
        map == MapDelete(EntryGet(interceptors, key), id)
    IN /\ ~Hung
       /\ interceptorsOrdered' = cache
       /\ arrays' = Collect(arrays, cache, emissions)
       /\ firstRes' = [n \in Names |-> NoFirst]
       /\ UNCHANGED handlers
       /\ IF EntryIndex(interceptors, key) # 0
          THEN /\ interceptors' = IF Len(map) = 0 THEN EntryDelete(interceptors, key)
                                  ELSE EntrySet(interceptors, key, map)
               /\ emissions' = Touch(emissions)
               /\ last' = Call("remove", name, "none", <<>>)
          ELSE /\ last' = Call("remove", name, "NotFound", <<>>)
               /\ UNCHANGED <<interceptors, emissions>>

\* validate(name) with a name.
validate(name) ==
    LET g == GetOrderedInterceptors(interceptors, interceptorsOrdered, arrays, name)
    IN /\ ~Hung
       /\ interceptorsOrdered' = g.cache
       /\ arrays' = g.arrays
       /\ firstRes' = NoteFirst(firstRes, name, g)
       /\ last' = Call("validate", name, g.err, Returned(g))
       /\ UNCHANGED <<interceptors, handlers, emissions>>

\* The loop of validate() over this._interceptors.keys(), skipping the Symbol.
RECURSIVE ValidateKeys(_, _, _, _, _)
ValidateKeys(store, i, cache, arrs, fr) ==
    IF i > Len(store) THEN [err |-> "none", cache |-> cache, arrays |-> arrs, first |-> fr]
    ELSE IF store[i].key = InjectHooksFilter
         THEN ValidateKeys(store, i + 1, cache, arrs, fr)
         ELSE LET g == GetOrderedInterceptors(store, cache, arrs, store[i].key) IN
              IF g.err # "none"
              THEN [err |-> g.err, cache |-> cache, arrays |-> arrs, first |-> fr]
              ELSE ValidateKeys(store, i + 1, g.cache, g.arrays,
                                NoteFirst(fr, store[i].key, g))

\* validate() without a name.
validateAll ==
    LET v == ValidateKeys(interceptors, 1, interceptorsOrdered, arrays, firstRes)
    IN /\ ~Hung
       /\ interceptorsOrdered' = v.cache
       /\ arrays' = v.arrays
       /\ firstRes' = v.first
       /\ last' = Call("validate", "", v.err, <<>>)
       /\ UNCHANGED <<interceptors, handlers, emissions>>

\* ------------------------------------------------------------------------
\* Handlers
\* ------------------------------------------------------------------------

on(name, handler) ==
    /\ ~Hung
    /\ handlers' = EntrySet(handlers, MapKey(name),
                            Append(EntryGet(handlers, MapKey(name)),
                                   [name |-> name, handler |-> handler]))
    /\ UNCHANGED <<interceptors, interceptorsOrdered, arrays, emissions, last, firstRes>>

\* The body of on on the handler store.
On(hs, name, handler) ==
    EntrySet(hs, MapKey(name),
             Append(EntryGet(hs, MapKey(name)), [name |-> name, handler |-> handler]))

\* The body of off on the handler store: the array of the key is searched
\* for the function, whatever name each entry was registered with, and the
\* first entry found is spliced out; a search that fails drops the key when
\* its array is empty or absent, and throws.
Off(hs, name, handler) ==
    LET key == MapKey(name)
        a == EntryGet(hs, key)
        found == {i \in DOMAIN a : a[i].handler = handler}
    IN IF found # {}
       THEN [err |-> "none",
             handlers |-> EntrySet(hs, key,
                                   Without(a, CHOOSE i \in found : \A j \in found : i <= j))]
       ELSE [err |-> "NotFound",
             handlers |-> IF a = <<>> THEN EntryDelete(hs, key) ELSE hs]

off(name, handler) ==
    /\ ~Hung
    /\ handlers' = Off(handlers, name, handler).handlers
    /\ last' = Call("off", name, Off(handlers, name, handler).err, <<>>)
    /\ UNCHANGED <<interceptors, interceptorsOrdered, arrays, emissions, firstRes>>

\* The onceHandler closure a call of once(name, handler) creates: a function
\* of its own, told from every other one by the serial number k.
OnceHandler(name, handler, k) ==
    "once(" \o name \o "," \o handler \o ")#" \o ToString(k)

\* Every onceHandler closure with the variables it closes over.
OnceClosures ==
    {[fn |-> OnceHandler(n, h, k), name |-> n, handler |-> h] :
        n \in Names \cup Filters, h \in HandlerFns, k \in 1..MaxListeners}

IsOnce(handler) == \E c \in OnceClosures : c.fn = handler

Closure(handler) == CHOOSE c \in OnceClosures : c.fn = handler

\* The function is registered somewhere in the handler store.
Listed(hs, handler) ==
    \E i \in DOMAIN hs : \E j \in DOMAIN hs[i].val : hs[i].val[j].handler = handler

once(name, handler) ==
    LET k == CHOOSE i \in 1..MaxListeners :
                 /\ ~Listed(handlers, OnceHandler(name, handler, i))
                 /\ \A j \in 1..(i - 1) : Listed(handlers, OnceHandler(name, handler, j))
        a == EntryGet(handlers, MapKey(name))
    IN /\ ~Hung
       /\ handlers' = EntrySet(handlers, MapKey(name),
                               a \o <<[name |-> name, handler |-> OnceHandler(name, handler, k)],
                                      [name |-> name, handler |-> handler]>>)
       /\ UNCHANGED <<interceptors, interceptorsOrdered, arrays, emissions, last, firstRes>>

\* ------------------------------------------------------------------------
\* emit, its timer, and the continuation-passing run of the chain
\* ------------------------------------------------------------------------

\* The payload an interceptor passes on: it appends its own tag.
Transformed(injector, data) == Append(data, injector.tag)

\* The handler list the completion callback of emit builds: the handlers of
\* the name, then the predicate-keyed handlers that accept it, in the order
\* of the stores, with every predicate-keyed handler taken.
HandlerListUnfiltered(hs, name, done) ==
    LET list == EntryGet(hs, name) \o EntryGet(hs, InjectHooksFilter)
        handlerList == [i \in 1..Len(list) |-> list[i].handler]
    IN IF done THEN <<"done">> \o handlerList ELSE handlerList

\* The handler list with the accepting predicate-keyed handlers put before
\* the handlers of the name.
HandlerListFiltersFirst(hs, name, done) ==
    LET list == SelectSeq(EntryGet(hs, InjectHooksFilter),
                          LAMBDA h : h.name \in Filters /\ Accepts(h.name, name))
                \o EntryGet(hs, name)
        handlerList == [i \in 1..Len(list) |-> list[i].handler]
    IN IF done THEN <<"done">> \o handlerList ELSE handlerList

\* The completion callback of emit: the handlers of the name, then the
\* predicate-keyed handlers that accept it, with done put in front.
HandlerList(hs, name, done) ==
    LET list == EntryGet(hs, name) \o
                SelectSeq(EntryGet(hs, InjectHooksFilter),
                          LAMBDA h : h.name \in Filters /\ Accepts(h.name, name))
        handlerList == [i \in 1..Len(list) |-> list[i].handler]
    IN IF done THEN <<"done">> \o handlerList ELSE handlerList

\* What one call into the object works on: its fields, the record of the
\* emissions, and whether an exception is propagating (thrown) or a bound of
\* the model was reached (over).
World(hs, cache, arrs, ems, fr, l) ==
    [handlers |-> hs, cache |-> cache, arrays |-> arrs, ems |-> ems, first |-> fr,
     last |-> l, thrown |-> FALSE, over |-> FALSE]

\* An emit whose completion callback runs within the emit call.
DeferredNot(name, data, done) ==
    [name |-> name, data |-> data, done |-> done, st |-> "dispatched",
     arr |-> Undefined, cur |-> data, ran |-> <<>>,
     got |-> IF done THEN <<"done">> ELSE <<>>,
     args |-> IF done THEN <<name>> ELSE <<>>,
     err |-> "none", dirty |-> FALSE, parked |-> <<>>, calls |-> 1]

\* What setTimeout leaves of an emit call: a callback that has yet to run.
Deferred(name, data, done) ==
    [name |-> name, data |-> data, done |-> done, st |-> "timer",
     arr |-> Undefined, cur |-> data, ran |-> <<>>, got |-> <<>>, args |-> <<>>,
     err |-> "none", dirty |-> FALSE, parked |-> <<>>, calls |-> 0]

\* emit once the name is resolved (g): throw, or setTimeout.
Schedule(w, name, data, done, g) ==
    [w EXCEPT !.cache = g.cache,
              !.arrays = g.arrays,
              !.first = NoteFirst(w.first, name, g),
              !.last = Call("emit", name, g.err, Returned(g)),
              !.thrown = g.err # "none",
              !.ems = IF g.err = "none" THEN Append(@, Deferred(name, data, done)) ELSE @]

\* The body of emit: resolve the name, or throw; then setTimeout.
EmitCall(w, name, data, done) ==
    IF Len(w.ems) >= MaxQueue THEN [w EXCEPT !.over = TRUE]
    ELSE Schedule(w, name, data, done,
                  GetOrderedInterceptors(interceptors, w.cache, w.arrays, name))

\* What a handler does when it is invoked.
HandlerEmits(handler) == handler = "hemit"
HandlerAdds(handler) == handler = "hon"

\* A name argument taken from the latest emit call on the object.
NameArgumentLatest(w, e) == w.last.name

\* The name argument interceptors and handlers are called with: the variable
\* `name` of the emit call, which the closures of emit and _transform keep.
NameArgument(w, e) == w.ems[e].name

\* The second off of a onceHandler, once the first one went through (hs).
OnceOff(w, e, c, hs) ==
    [w EXCEPT !.handlers = Off(hs, c.name, c.handler).handlers,
              !.thrown = Off(hs, c.name, c.handler).err # "none",
              !.ems[e].err = IF Off(hs, c.name, c.handler).err # "none"
                             THEN Off(hs, c.name, c.handler).err ELSE @]

\* The body of the onceHandler closure c: this.off(name, onceHandler), then
\* this.off(name, handler); an off that throws ends the closure.
OnceCall(w, e, c) ==
    IF Off(w.handlers, c.name, c.fn).err # "none"
    THEN [w EXCEPT !.handlers = Off(w.handlers, c.name, c.fn).handlers,
                   !.thrown = TRUE,
                   !.ems[e].err = Off(w.handlers, c.name, c.fn).err]
    ELSE OnceOff(w, e, c, Off(w.handlers, c.name, c.fn).handlers)

\* The handler invoked and the name it is given.
Invoked1(w, e, handler) ==
    [w EXCEPT !.ems[e].got = Append(@, handler),
              !.ems[e].args = Append(@, NameArgument(w, e))]

\* handler(modifiedData, name) for one entry of handlerList.
Invoke(w, e, handler, data) ==
    IF HandlerEmits(handler) THEN EmitCall(Invoked1(w, e, handler), "y", data, FALSE)
    ELSE IF IsOnce(handler) THEN OnceCall(Invoked1(w, e, handler), e, Closure(handler))
    ELSE IF HandlerAdds(handler)
         THEN [Invoked1(w, e, handler) EXCEPT !.handlers = On(@, "x", "h2")]
    ELSE Invoked1(w, e, handler)

\* handlerList.forEach passing over the handlers that are no longer
\* registered when their turn comes.
RECURSIVE DispatchListed(_, _, _, _)
DispatchListed(w, e, handlerList, data) ==
    IF handlerList = <<>> \/ w.thrown \/ w.over THEN w
    ELSE IF Head(handlerList) # "done" /\ ~Listed(w.handlers, Head(handlerList))
         THEN DispatchListed(w, e, Tail(handlerList), data)
         ELSE DispatchListed(Invoke(w, e, Head(handlerList), data), e, Tail(handlerList), data)

\* handlerList.forEach: an exception thrown by a handler ends the loop.
RECURSIVE Dispatch(_, _, _, _)
Dispatch(w, e, handlerList, data) ==
    IF handlerList = <<>> \/ w.thrown \/ w.over THEN w
    ELSE Dispatch(Invoke(w, e, Head(handlerList), data), e, Tail(handlerList), data)

\* The completion callback emit passes to _transform.
Callback(w, e, data) ==
    Dispatch([w EXCEPT !.ems[e].cur = data, !.ems[e].calls = @ + 1], e,
             HandlerList(w.handlers, w.ems[e].name, w.ems[e].done), data)

\* runNext: shift the array and run the interceptor, which calls its
\* continuation at once ("sync"), keeps it for later ("async"), never calls it
\* ("halt") or calls it two times in a row ("twice"); an empty array means
\* the completion callback.
RECURSIVE RunNext(_, _, _, _)
RunNext(w, e, ref, data) ==
    IF w.thrown \/ w.over THEN w
    ELSE IF w.arrays[ref].items = <<>> THEN Callback(w, e, data)
    ELSE LET interceptor == Head(w.arrays[ref].items)
             d == Transformed(interceptor, data)
             w1 == [w EXCEPT !.arrays[ref].items = Tail(@),
                             !.ems[e].ran = Append(@, interceptor.tag),
                             !.ems[e].args = Append(@, NameArgument(w, e))]
         IN CASE interceptor.beh = "sync" -> RunNext(w1, e, ref, d)
              [] interceptor.beh = "async" -> [w1 EXCEPT !.ems[e].parked = Append(@, d)]
              [] interceptor.beh = "halt" -> w1
              [] interceptor.beh = "twice" -> RunNext(RunNext(w1, e, ref, d), e, ref, d)

\* Where emission e stands when the call stack has unwound.
Settle(w, e) ==
    LET em == w.ems[e]
        st == IF em.parked # <<>> THEN "waiting"
              ELSE IF w.thrown THEN "aborted"
              ELSE IF em.calls > 0 THEN "dispatched"
              ELSE "halted"
    IN [w EXCEPT !.ems[e].st = st,
                 !.ems[e].arr = IF st = "waiting" THEN @ ELSE Undefined]

\* The state a call into the object leaves behind.
Commit(w) ==
    /\ ~w.over
    /\ emissions' = w.ems
    /\ interceptorsOrdered' = w.cache
    /\ arrays' = Collect(w.arrays, w.cache, w.ems)
    /\ firstRes' = w.first
    /\ last' = w.last
    /\ handlers' = w.handlers
    /\ UNCHANGED interceptors

emit(name, data, done) ==
    /\ ~Hung
    /\ Commit(EmitCall(World(handlers, interceptorsOrdered, arrays, emissions, firstRes, last),
                       name, data, done))

\* Timers of the same delay fire in the order they were set: a callback that
\* any pending emission may run.
AnyPending(ems, e) == ems[e].st = "timer"

\* Timers of the same delay fire in the order they were set: the callback to
\* run is that of the oldest emission still waiting for its timer.
Oldest(ems, e) == ems[e].st = "timer" /\ \A d \in 1..(e - 1) : ems[d].st # "timer"

\* _transform once the name is resolved again (g): throw, or runNext.
Transform(e, g) ==
    IF g.err # "none"
    THEN /\ emissions' = [emissions EXCEPT ![e].st = "threw", ![e].err = g.err]
         /\ UNCHANGED <<interceptors, handlers, interceptorsOrdered, arrays, firstRes, last>>
    ELSE Commit(Settle(RunNext(World(handlers, g.cache, g.arrays,
                                     [emissions EXCEPT ![e].arr = g.ref],
                                     NoteFirst(firstRes, emissions[e].name, g), last),
                               e, g.ref, emissions[e].data),
                       e))

\* The setTimeout callback: _transform resolves the name again and starts
\* runNext.
timer ==
    /\ ~Hung
    /\ \E e \in DOMAIN emissions :
        /\ Oldest(emissions, e)
        /\ Transform(e, GetOrderedInterceptors(interceptors, interceptorsOrdered, arrays,
                                               emissions[e].name))

\* An interceptor that kept its continuation calls it: runNext(interceptors, data).
next(e) ==
    /\ ~Hung
    /\ e \in DOMAIN emissions
    /\ emissions[e].st = "waiting"
    /\ \E k \in DOMAIN emissions[e].parked :
          Commit(Settle(RunNext(World(handlers, interceptorsOrdered, arrays,
                                      [emissions EXCEPT ![e].parked = Without(@, k)],
                                      firstRes, last),
                                e, emissions[e].arr, emissions[e].parked[k]),
                        e))

\* ------------------------------------------------------------------------
\* Specifications
\* ------------------------------------------------------------------------

Injector(name, id, beh) == [tag |-> id, reg |-> name, beh |-> beh]

NoConditions == [after |-> Omitted, before |-> Omitted, conflicts |-> Omitted,
                 depends |-> Omitted, order |-> "undefined"]

\* Spec: emissions over a small store.  Interceptors are registered under the
\* name "x" or under a predicate accepting "x"; each calls its continuation,
\* at once or later.
SpecKeys == {"x", "fx"}
SpecIds == {"a", "b"}
SpecInjectors ==
    {Injector("x", "a", "sync"), Injector("x", "a", "async"), Injector("x", "b", "sync"),
     Injector("fx", "a", "sync"), Injector("fx", "b", "sync")}

Next ==
    \/ \E i \in SpecInjectors :
          /\ TotalRecs(interceptors) < MaxRecs
          /\ inject(i.reg, i.tag, i, NoConditions)
    \/ \E name \in SpecKeys, id \in SpecIds : remove(name, id)
    \/ validate("x")
    \/ \E name \in SpecKeys :
          /\ TotalHandlers(handlers) < MaxHandlers
          /\ on(name, "h1")
    \/ \E done \in BOOLEAN :
          /\ Len(emissions) < MaxEmits
          /\ emit("x", <<"zero">>, done)
    \/ timer
    \/ \E e \in 1..MaxEmits : next(e)

Spec == Init /\ [][Next]_vars

\* SpecStore: the interceptor store and the cache under inject, remove and
\* validate, with depends and conflicts constraints, two names and two
\* predicates; no emission.
StoreKeys == {"x", "y", "fx"}
StoreIds == {"a", "b"}
StoreConditions ==
    {NoConditions}
    \cup {[NoConditions EXCEPT !.conflicts = One(id)] : id \in {"a", "b"}}
    \cup {[NoConditions EXCEPT !.depends = Arr(<<id>>)] : id \in {"b", "c"}}

NextStore ==
    \/ \E name \in StoreKeys, id \in StoreIds, c \in StoreConditions :
          /\ TotalRecs(interceptors) < MaxRecs
          /\ inject(name, id, Injector(name, id, "sync"), c)
    \/ \E name \in StoreKeys, id \in StoreIds : remove(name, id)
    \/ \E name \in Names : validate(name)
    \/ validateAll

SpecStore == Init /\ [][NextStore]_vars

\* SpecOrder: the resolver as a function of the pool.  The store starts with
\* any pool of up to PoolSize records under "x" (the k-th record has the k-th
\* id), each with one of the ordering constraints below, and is resolved.
PoolSize == 3

PoolIds == <<"a", "b", "c", "d">>

OrderConditions(k) ==
    {[NoConditions EXCEPT !.order = o] : o \in {"undefined", "pre", "post"}}
    \cup {[NoConditions EXCEPT !.order = o, !.before = One(PoolIds[i])] :
            o \in {"undefined", "pre", "post"}, i \in 1..k}
    \cup {[NoConditions EXCEPT !.order = o, !.after = Arr(<<PoolIds[i]>>)] :
            o \in {"undefined", "pre", "post"}, i \in 1..k}

\* The Map that injecting PoolIds[1..k] under "x" with conditions cs builds.
Pool(k, cs) ==
    [i \in 1..k |->
        [id |-> PoolIds[i], injector |-> Injector("x", PoolIds[i], "sync"),
         name |-> "x", conditions |-> Normalize(cs[i])]]

InitOrder ==
    /\ \E k \in 1..PoolSize : \E cs \in [1..k -> OrderConditions(k)] :
          interceptors = <<[key |-> "x", val |-> Pool(k, cs)]>>
    /\ handlers = <<>>
    /\ interceptorsOrdered = [n \in Names |-> Undefined]
    /\ arrays = [r \in Refs |-> Free]
    /\ emissions = <<>>
    /\ last = Call("new", "", "none", <<>>)
    /\ firstRes = [n \in Names |-> NoFirst]

NextOrder == last.op = "new" /\ validate("x")

SpecOrder == InitOrder /\ [][NextOrder]_vars

\* SpecPool: verification as a function of the store.  The store starts as
\* up to MaxPool injects leave it: the k-th record has the k-th id, is
\* registered under "x" or under a predicate, in bucket mid or pre, and has no
\* constraint or one depends or conflicts id, which may be in no record.  Then
\* a name is resolved.
MaxPool == 2

PoolKeys == {"x", "fx", "fany"}

PoolConditions(k) ==
    {[NoConditions EXCEPT !.order = o] : o \in {"undefined", "pre"}}
    \cup {[NoConditions EXCEPT !.order = o, !.depends = One(PoolIds[i])] :
            o \in {"undefined", "pre"}, i \in 1..(k + 1)}
    \cup {[NoConditions EXCEPT !.order = o, !.conflicts = Arr(<<PoolIds[i]>>)] :
            o \in {"undefined", "pre"}, i \in 1..(k + 1)}

\* The store after inject(ks[i], PoolIds[i], ..., cs[i]) for i = 1..k.
RECURSIVE Injected(_, _, _)
Injected(k, ks, cs) ==
    IF k = 0 THEN <<>>
    ELSE LET store == Injected(k - 1, ks, cs)
             info == [id |-> PoolIds[k], injector |-> Injector(ks[k], PoolIds[k], "sync"),
                      name |-> ks[k], conditions |-> Normalize(cs[k])]
         IN EntrySet(store, MapKey(ks[k]), Append(EntryGet(store, MapKey(ks[k])), info))

InitPool ==
    /\ \E k \in 1..MaxPool : \E ks \in [1..k -> PoolKeys], cs \in [1..k -> PoolConditions(k)] :
          interceptors = Injected(k, ks, cs)
    /\ handlers = <<>>
    /\ interceptorsOrdered = [n \in Names |-> Undefined]
    /\ arrays = [r \in Refs |-> Free]
    /\ emissions = <<>>
    /\ last = Call("new", "", "none", <<>>)
    /\ firstRes = [n \in Names |-> NoFirst]

NextPool == last.op = "new" /\ \E name \in Names : validate(name)

SpecPool == InitPool /\ [][NextPool]_vars

\* SpecRegister: registration and removal under every kind of key - two
\* concrete names and two distinct predicates - without constraints.
RegisterKeys == {"x", "y", "fx", "fany"}
RegisterIds == {"a", "b"}

NextRegister ==
    \/ \E name \in RegisterKeys, id \in RegisterIds :
          /\ TotalRecs(interceptors) < MaxRecs
          /\ inject(name, id, Injector(name, id, "sync"), NoConditions)
    \/ \E name \in RegisterKeys, id \in RegisterIds : remove(name, id)
    \/ \E name \in Names : validate(name)

SpecRegister == Init /\ [][NextRegister]_vars

\* SpecShared: one id registered under concrete names and under predicates,
\* resolved by validate and by emit, whose deferred stage runs too.
SharedKeys == {"x", "y", "fx", "fany"}
SharedIds == {"a"}

NextShared ==
    \/ \E name \in SharedKeys, id \in SharedIds :
          /\ TotalRecs(interceptors) < MaxRecs
          /\ inject(name, id, Injector(name, id, "sync"), NoConditions)
    \/ \E name \in SharedKeys, id \in SharedIds : remove(name, id)
    \/ \E name \in Names : validate(name)
    \/ \E name \in Names :
          /\ Len(emissions) < MaxEmits
          /\ emit(name, <<"zero">>, FALSE)
    \/ timer

SpecShared == Init /\ [][NextShared]_vars

\* SpecEmitStore: emit, its deferred stage and validate over a store that
\* changes between them, with a depends constraint; every interceptor calls
\* its continuation at once.
EmitStoreConditions == {NoConditions, [NoConditions EXCEPT !.depends = One("b")]}

NextEmitStore ==
    \/ \E name \in StoreKeys, id \in StoreIds, c \in EmitStoreConditions :
          /\ TotalRecs(interceptors) < MaxRecs
          /\ inject(name, id, Injector(name, id, "sync"), c)
    \/ \E name \in StoreKeys, id \in StoreIds : remove(name, id)
    \/ \E name \in Names : validate(name)
    \/ \E name \in Names :
          /\ Len(emissions) < MaxEmits
          /\ emit(name, <<"zero">>, FALSE)
    \/ timer

SpecEmitStore == Init /\ [][NextEmitStore]_vars

\* SpecChain: the run of a chain.  The store starts with any chain of up to
\* MaxChain interceptors under "x", registered in that order without
\* constraints; each calls its continuation at once, later, never, or two
\* times in a row.
MaxChain == 2

ChainBehaviours == {"sync", "async", "halt", "twice"}

\* The Map that injecting PoolIds[1..k] under "x" with behaviours bs builds.
Chain(k, bs) ==
    [i \in 1..k |->
        [id |-> PoolIds[i], injector |-> Injector("x", PoolIds[i], bs[i]),
         name |-> "x", conditions |-> Normalize(NoConditions)]]

InitChain ==
    /\ \E k \in 0..MaxChain : \E bs \in [1..k -> ChainBehaviours] :
          interceptors = IF k = 0 THEN <<>> ELSE <<[key |-> "x", val |-> Chain(k, bs)]>>
    /\ handlers = <<>>
    /\ interceptorsOrdered = [n \in Names |-> Undefined]
    /\ arrays = [r \in Refs |-> Free]
    /\ emissions = <<>>
    /\ last = Call("new", "", "none", <<>>)
    /\ firstRes = [n \in Names |-> NoFirst]

NextChain ==
    \/ /\ TotalHandlers(handlers) < MaxHandlers
       /\ on("x", "h1")
    \/ \E done \in BOOLEAN :
          /\ Len(emissions) < MaxEmits
          /\ emit("x", <<"zero">>, done)
    \/ timer
    \/ \E e \in 1..MaxEmits : next(e)

SpecChain == InitChain /\ [][NextChain]_vars

\* SpecQueue: the timer queue and the dispatch.  "x" has no interceptor or
\* one that calls its continuation at once or later; handlers are registered
\* under both names and under a predicate that accepts "x" only, and a handler
\* may emit "y" itself; the application emits "x" with or without a done
\* callback and "y" without one.
MaxOn == 2

QueueKeys == {"x", "y", "fx"}
QueueHandlers == {"h1", "hemit"}

InitQueue ==
    /\ \E k \in 0..1 : \E bs \in [1..k -> {"sync", "async"}] :
          interceptors = IF k = 0 THEN <<>> ELSE <<[key |-> "x", val |-> Chain(k, bs)]>>
    /\ handlers = <<>>
    /\ interceptorsOrdered = [n \in Names |-> Undefined]
    /\ arrays = [r \in Refs |-> Free]
    /\ emissions = <<>>
    /\ last = Call("new", "", "none", <<>>)
    /\ firstRes = [n \in Names |-> NoFirst]

NextQueue ==
    \/ \E name \in QueueKeys, handler \in QueueHandlers :
          /\ TotalHandlers(handlers) < MaxOn
          /\ on(name, handler)
    \/ \E done \in BOOLEAN : emit("x", <<"zero">>, done)
    \/ emit("y", <<"zero">>, FALSE)
    \/ timer
    \/ \E e \in 1..MaxQueue : next(e)

SpecQueue == InitQueue /\ [][NextQueue]_vars

\* SpecNormalize: inject under "x" with constraints of every shape: one of
\* the four lists omitted, a single id, or an array of none, one or two ids,
\* with the order omitted or given; and all four lists given at once.
ConditionFields == {"after", "before", "conflicts", "depends"}

ConditionShapes == {Omitted, One("b"), Arr(<<>>), Arr(<<"b">>), Arr(<<"c", "b">>)}

ConditionOrders == {"undefined", "pre", "mid", "post"}

NormalizeConditions ==
    {[NoConditions EXCEPT ![f] = v, !.order = o] :
        f \in ConditionFields, v \in ConditionShapes, o \in ConditionOrders}
    \cup {[after |-> One("a"), before |-> Arr(<<"b", "c">>), conflicts |-> Arr(<<>>),
           depends |-> One("c"), order |-> o] : o \in ConditionOrders}

NormalizeIds == {"a", "b"}

NextNormalize ==
    \/ \E id \in NormalizeIds, c \in NormalizeConditions :
          /\ TotalRecs(interceptors) < MaxRecs
          /\ inject("x", id, Injector("x", id, "sync"), c)
    \/ \E id \in NormalizeIds : remove("x", id)

SpecNormalize == Init /\ [][NextNormalize]_vars

\* SpecNames: what the invoked functions are told.  The store starts with no
\* interceptor or with one, registered under "x" or under a predicate, that
\* calls its continuation at once or later; a handler is registered under a
\* name or a predicate; both names are emitted, with or without a done
\* callback.
NameKeys == {"x", "y", "fx", "fany"}

InitNames ==
    /\ \E k \in 0..1 : \E ks \in [1..k -> PoolKeys], bs \in [1..k -> {"sync", "async"}] :
          interceptors =
              IF k = 0 THEN <<>>
              ELSE <<[key |-> MapKey(ks[1]),
                      val |-> <<[id |-> "a", injector |-> Injector(ks[1], "a", bs[1]),
                                 name |-> ks[1], conditions |-> Normalize(NoConditions)]>>]>>
    /\ handlers = <<>>
    /\ interceptorsOrdered = [n \in Names |-> Undefined]
    /\ arrays = [r \in Refs |-> Free]
    /\ emissions = <<>>
    /\ last = Call("new", "", "none", <<>>)
    /\ firstRes = [n \in Names |-> NoFirst]

NextNames ==
    \/ \E name \in NameKeys :
          /\ TotalHandlers(handlers) < MaxHandlers
          /\ on(name, "h1")
    \/ \E name \in Names, done \in BOOLEAN :
          /\ Len(emissions) < MaxEmits
          /\ emit(name, <<"zero">>, done)
    \/ timer
    \/ \E e \in 1..MaxEmits : next(e)

SpecNames == InitNames /\ [][NextNames]_vars

\* SpecOff: the handler store under on and off, with one concrete name and
\* two distinct predicates.
OffKeys == {"x", "fx", "fany"}
OffHandlers == {"h1", "h2"}

NextOff ==
    \/ \E name \in OffKeys, handler \in OffHandlers :
          /\ TotalHandlers(handlers) < MaxListeners
          /\ on(name, handler)
    \/ \E name \in OffKeys, handler \in OffHandlers : off(name, handler)

SpecOff == Init /\ [][NextOff]_vars

\* SpecListeners: handlers that come and go around emissions.  Handlers are
\* registered under one of two predicates, "h1" with on and "h2" with on or
\* once, and "h2" is removed with off; "x" and "y" are emitted, and pass
\* through one interceptor registered under the predicate that accepts every
\* name.
ListenerKeys == {"fx", "fany"}
ListenerHandlers == {"h1", "h2"}

InitListeners ==
    /\ interceptors =
          <<[key |-> InjectHooksFilter,
             val |-> <<[id |-> "a", injector |-> Injector("fany", "a", "sync"),
                        name |-> "fany", conditions |-> Normalize(NoConditions)]>>]>>
    /\ handlers = <<>>
    /\ interceptorsOrdered = [n \in Names |-> Undefined]
    /\ arrays = [r \in Refs |-> Free]
    /\ emissions = <<>>
    /\ last = Call("new", "", "none", <<>>)
    /\ firstRes = [n \in Names |-> NoFirst]

NextListeners ==
    \/ \E name \in ListenerKeys, handler \in ListenerHandlers :
          /\ TotalHandlers(handlers) < MaxListeners
          /\ on(name, handler)
    \/ \E name \in ListenerKeys :
          /\ TotalHandlers(handlers) + 1 < MaxListeners
          /\ once(name, "h2")
    \/ \E name \in ListenerKeys : off(name, "h2")
    \/ \E name \in Names :
          /\ Len(emissions) < MaxEmits
          /\ emit(name, <<"zero">>, FALSE)
    \/ timer

SpecListeners == InitListeners /\ [][NextListeners]_vars

\* SpecFlight: emissions of "x" with different payloads under way at the
\* same time.  The store starts with a chain of up to MaxChain interceptors
\* under "x", each calling its continuation once, at once or later.
Payloads == {<<"one">>, <<"two">>}

InitFlight ==
    /\ \E k \in 1..MaxChain : \E bs \in [1..k -> {"sync", "async"}] :
          interceptors = <<[key |-> "x", val |-> Chain(k, bs)]>>
    /\ handlers = <<>>
    /\ interceptorsOrdered = [n \in Names |-> Undefined]
    /\ arrays = [r \in Refs |-> Free]
    /\ emissions = <<>>
    /\ last = Call("new", "", "none", <<>>)
    /\ firstRes = [n \in Names |-> NoFirst]

NextFlight ==
    \/ /\ TotalHandlers(handlers) < MaxHandlers
       /\ on("x", "h1")
    \/ \E data \in Payloads :
          /\ Len(emissions) < MaxEmits
          /\ emit("x", data, FALSE)
    \/ timer
    \/ \E e \in 1..MaxEmits : next(e)

SpecFlight == InitFlight /\ [][NextFlight]_vars

\* SpecFail: resolutions that fail.  Records are registered under "x" or
\* under the predicate accepting every name, without constraint or with a
\* depends or a conflicts id; "x" is validated and emitted, and the deferred
\* stage of an emission resolves its name again.
FailKeys == {"x", "fany"}
FailIds == {"a", "b"}
FailConditions ==
    {NoConditions, [NoConditions EXCEPT !.depends = One("b")],
     [NoConditions EXCEPT !.conflicts = One("a")]}

NextFail ==
    \/ \E name \in FailKeys, id \in FailIds, c \in FailConditions :
          /\ TotalRecs(interceptors) < MaxRecs
          /\ inject(name, id, Injector(name, id, "sync"), c)
    \/ \E name \in FailKeys, id \in FailIds : remove(name, id)
    \/ validate("x")
    \/ /\ Len(emissions) < MaxEmits
       /\ emit("x", <<"zero">>, FALSE)
    \/ timer

SpecFail == Init /\ [][NextFail]_vars

\* SpecDrop: keys that come and go.  Records without constraints are
\* registered and removed under two names and a predicate, and validate() is
\* called without a name.
DropKeys == {"x", "y", "fx"}
DropIds == {"a", "b"}

NextDrop ==
    \/ \E name \in DropKeys, id \in DropIds :
          /\ TotalRecs(interceptors) < MaxRecs
          /\ inject(name, id, Injector(name, id, "sync"), NoConditions)
    \/ \E name \in DropKeys, id \in DropIds : remove(name, id)
    \/ validateAll

SpecDrop == Init /\ [][NextDrop]_vars

\* SpecSnapshot: handlers that change while an emission is under way.  "x"
\* has no interceptor or one, as in SpecQueue.  "hon", which registers "h2"
\* when invoked, is registered with on or once at any time; "h1" is
\* registered while an emission has been emitted and has not come to rest.
SnapshotKeys == {"x", "fx"}

UnderWay == \E e \in DOMAIN emissions : ~Ended(emissions[e])

NextSnapshot ==
    \/ \E name \in SnapshotKeys :
          /\ TotalHandlers(handlers) < MaxListeners
          /\ on(name, "hon")
    \/ \E name \in SnapshotKeys :
          /\ TotalHandlers(handlers) + 1 < MaxListeners
          /\ once(name, "hon")
    \/ \E name \in SnapshotKeys :
          /\ UnderWay
          /\ TotalHandlers(handlers) < MaxListeners
          /\ on(name, "h1")
    \/ /\ Len(emissions) < MaxEmits
       /\ emit("x", <<"zero">>, FALSE)
    \/ timer
    \/ \E e \in 1..MaxEmits : next(e)

SpecSnapshot == InitQueue /\ [][NextSnapshot]_vars

\* ------------------------------------------------------------------------
\* Vocabulary of the properties
\* ------------------------------------------------------------------------

\* The latest call was validate(name) or emit(name); neither changes the
\* store, so the store of the state is the store the call resolved.
ResolutionCall == last.op \in {"validate", "emit"} /\ last.name \in Names

\* Position of an injector in a chain; 0 when it is not in it.
Pos(chain, injector) ==
    IF \E i \in DOMAIN chain : chain[i] = injector
    THEN CHOOSE i \in DOMAIN chain : chain[i] = injector
    ELSE 0

Tags(chain) == [i \in DOMAIN chain |-> chain[i].tag]

BucketRank(info) ==
    IF info.conditions.order = "pre" THEN 0
    ELSE IF info.conditions.order = "post" THEN 2 ELSE 1

\* a must run before b: a lists b in before, or b lists a in after.
MustPrecede(a, b) ==
    \/ b.id \in Range(a.conditions.before)
    \/ a.id \in Range(b.conditions.after)

\* Some records of one bucket of the pool form a cycle of MustPrecede: a
\* non-empty set in which every record has a predecessor in the set.
HasCycle(pool) ==
    \E S \in SUBSET (DOMAIN pool) :
        /\ S # {}
        /\ \A j \in S : BucketRank(pool[j]) = BucketRank(pool[CHOOSE k \in S : TRUE])
        /\ \A j \in S : \E i \in S : MustPrecede(pool[i], pool[j])

\* A record with this id is registered under this very key (the name or the
\* predicate it was injected with).
Registered(store, name, id) ==
    \E i \in DOMAIN store : \E j \in DOMAIN store[i].val :
        store[i].val[j].name = name /\ store[i].val[j].id = id

\* A record registered under the concrete name and a record registered under
\* a predicate accepting the name have the same id.
DuplicatePair(store, name) ==
    \E i, j \in DOMAIN store : \E k \in DOMAIN store[i].val, l \in DOMAIN store[j].val :
        /\ store[i].val[k].name = name
        /\ store[j].val[l].name \in Filters /\ Accepts(store[j].val[l].name, name)
        /\ store[i].val[k].id = store[j].val[l].id

\* How often x occurs in a sequence.
Count(x, s) == Cardinality({i \in DOMAIN s : s[i] = x})

\* What the interceptor registered under the name with this id does with its
\* continuation.
BehOf(store, name, id) == MapGet(EntryGet(store, name), id).injector.beh

\* A handler registration matches an emitted name.
Matches(rec, name) == rec.name = name \/ (rec.name \in Filters /\ Accepts(rec.name, name))

\* How many registrations of the handler match the name.
Matching(hs, name, handler) ==
    Cardinality(UNION {{<<i, j>> : j \in {k \in DOMAIN hs[i].val :
                                               /\ hs[i].val[k].handler = handler
                                               /\ Matches(hs[i].val[k], name)}} :
                       i \in DOMAIN hs})

\* Nothing of the emission has run: its timer is pending.
Untouched(em) ==
    em.st = "timer" /\ em.ran = <<>> /\ em.got = <<>> /\ em.args = <<>> /\ em.calls = 0
    /\ em.parked = <<>>

\* What emission e invoked in this step.
Invoked(e) == SubSeq(emissions'[e].got, Len(emissions[e].got) + 1, Len(emissions'[e].got))

\* Registration k of key i was made before registration l of key j, as far
\* as a store from which nothing was ever removed tells: arrays grow at the
\* end, and keys are kept in the order of their first registration.
RegisteredBefore(i, k, j, l) == (i = j /\ k < l) \/ (i < j /\ k = 1)

\* Registration k of key i is of the exact name and registration l of key j
\* of a predicate, or both are of the same kind and k was made first.
ExactThenRegistered(hs, i, k, j, l) ==
    \/ hs[i].val[k].name \in Names /\ hs[j].val[l].name \in Filters
    \/ i = j /\ k < l

\* The positions, in the array of its key, of the registrations of the
\* handler under this very key (the name or the predicate).
RegsOf(hs, name, handler) ==
    {i \in DOMAIN EntryGet(hs, MapKey(name)) :
        /\ EntryGet(hs, MapKey(name))[i].name = name
        /\ EntryGet(hs, MapKey(name))[i].handler = handler}

\* The handler store without the earliest registration of the handler under
\* this very key.
WithoutFirstReg(hs, name, handler) ==
    LET regs == RegsOf(hs, name, handler)
    IN EntrySet(hs, MapKey(name),
                Without(EntryGet(hs, MapKey(name)), CHOOSE i \in regs : \A j \in regs : i <= j))

\* Two handler stores hold the same registrations in the same order; a key
\* without registrations counts as absent.
SameRegs(hs1, hs2) ==
    \A key \in Names \cup {InjectHooksFilter} : EntryGet(hs1, key) = EntryGet(hs2, key)

\* The positions, in the array of its key, of the onceHandler closures that
\* once(name, handler) registered.
OnceRegs(hs, name, handler) ==
    {i \in DOMAIN EntryGet(hs, MapKey(name)) :
        /\ IsOnce(EntryGet(hs, MapKey(name))[i].handler)
        /\ Closure(EntryGet(hs, MapKey(name))[i].handler).name = name
        /\ Closure(EntryGet(hs, MapKey(name))[i].handler).handler = handler}

\* Every registered onceHandler closure finds a registration of its handler
\* in the array of its key.
OncePairsWhole(hs) ==
    \A i \in DOMAIN hs : \A j \in DOMAIN hs[i].val :
        IsOnce(hs[i].val[j].handler)
            => \E k \in DOMAIN hs[i].val :
                   hs[i].val[k].handler = Closure(hs[i].val[j].handler).handler

\* A key (a name or a predicate) matches an emitted name.
KeyMatches(key, name) == key = name \/ (key \in Filters /\ Accepts(key, name))

\* The ids of a list that are not those of a record of the pool in another
\* bucket than info.
SameBucketRefs(pool, info, ids) ==
    SelectSeq(ids, LAMBDA id : \A i \in DOMAIN pool :
                                  pool[i].id = id => BucketRank(pool[i]) = BucketRank(info))

\* The store with every after / before reference taken out that names a
\* record of the pool in a different bucket.
WithoutCrossBucketRefs(store, pool) ==
    [i \in DOMAIN store |->
        [store[i] EXCEPT !.val =
            [j \in DOMAIN store[i].val |->
                [store[i].val[j] EXCEPT
                    !.conditions.after = SameBucketRefs(pool, store[i].val[j], @),
                    !.conditions.before = SameBucketRefs(pool, store[i].val[j], @)]]]]

\* The records of the store that belong to the pool of a name: registered
\* under the name or under a predicate accepting it, in whatever bucket.
PoolRecords(store, name) ==
    {rec \in UNION {Range(store[i].val) : i \in DOMAIN store} : Matches(rec, name)}

PoolRecordIds(store, name) == {rec.id : rec \in PoolRecords(store, name)}

\* A depends id of a record of the pool is in no record of the pool.
DependsUnmet(store, name) ==
    \E rec \in PoolRecords(store, name) :
        \E d \in Range(rec.conditions.depends) : d \notin PoolRecordIds(store, name)

\* A conflicts id of a record of the pool is in a record of the pool.
ConflictMet(store, name) ==
    \E rec \in PoolRecords(store, name) :
        \E c \in Range(rec.conditions.conflicts) : c \in PoolRecordIds(store, name)

HasConflict(pool) == \E i \in DOMAIN pool : PresentConflict(pool, pool[i])
HasMissing(pool) == \E i \in DOMAIN pool : MissingDepend(pool, pool[i])

\* s is the beginning of t.
IsPrefix(s, t) == Len(s) <= Len(t) /\ SubSeq(t, 1, Len(s)) = s

\* Position of the first interceptor of a chain that never calls its
\* continuation; 0 when every one does.
FirstHalt(chain) ==
    IF \E i \in DOMAIN chain : chain[i].beh = "halt"
    THEN CHOOSE i \in DOMAIN chain :
             chain[i].beh = "halt" /\ \A j \in 1..(i - 1) : chain[j].beh # "halt"
    ELSE 0

\* The injectors of the records of a Map<id, info>.
Injectors(map) == [i \in DOMAIN map |-> map[i].injector]

\* One sequence is a rearrangement of the other.
IsPermutation(s, t) ==
    /\ Len(s) = Len(t)
    /\ \A x \in Range(s) \cup Range(t) : Count(x, s) = Count(x, t)

\* Record i of the pool has no after and no before list, and no record of
\* its bucket has to precede it.
Unconstrained(pool, i) ==
    /\ pool[i].conditions.after = <<>>
    /\ pool[i].conditions.before = <<>>
    /\ \A j \in DOMAIN pool :
          BucketRank(pool[j]) = BucketRank(pool[i]) => ~MustPrecede(pool[j], pool[i])

\* ------------------------------------------------------------------------
\* C1
\* ------------------------------------------------------------------------

\* C1: every emission whose interceptors all call their continuation hands its
\* handlers the payload passed through every interceptor of the chain of its
\* name, in resolved order - the first emission of a name and every later one.
\* (Stated for the emissions during which the store did not change, and whose
\* name was first resolved, after the last change of the store, to the chain
\* of the store as it is.)
C1_PayloadThroughWholeChain ==
    \A e \in DOMAIN emissions :
        LET em == emissions[e]
            r == ResolveFresh(interceptors, em.name)
        IN (/\ em.st = "dispatched" /\ ~em.dirty
            /\ r.err = "none"
            /\ firstRes[em.name].set /\ firstRes[em.name].val = r.val)
               => em.cur = em.data \o Tags(r.val)

\* ------------------------------------------------------------------------
\* C2
\* ------------------------------------------------------------------------

\* C2: between two changes of the store every resolution of a name returns
\* the sequence the first one returned, and the ordering is computed at most
\* once.
C2_SameResolution ==
    /\ \A n \in Names : ~firstRes[n].again
    /\ (ResolutionCall /\ last.err = "none" /\ firstRes[last.name].set)
           => last.ret = firstRes[last.name].val

\* ------------------------------------------------------------------------
\* C3
\* ------------------------------------------------------------------------

\* C3: a successful resolution of a name returns exactly the interceptors of
\* its candidate pool (registered under the name, or under a predicate that
\* accepts it), each once.
C3_ChainIsThePool ==
    (ResolutionCall /\ last.err = "none")
        => LET pool == GetInterceptors(interceptors, last.name) IN
           /\ pool.err = "none"
           /\ Len(last.ret) = Len(pool.val)
           /\ Range(last.ret) = {pool.val[i].injector : i \in DOMAIN pool.val}

\* ------------------------------------------------------------------------
\* C4
\* ------------------------------------------------------------------------

\* C4: in a successfully resolved chain, two interceptors of the same bucket
\* of which one must precede the other (before / after) are both in the chain
\* and in that order.
C4_BeforeAfterRespected ==
    (ResolutionCall /\ last.err = "none")
        => LET pool == GetInterceptors(interceptors, last.name).val IN
           \A i, j \in DOMAIN pool :
               (BucketRank(pool[i]) = BucketRank(pool[j]) /\ MustPrecede(pool[i], pool[j]))
                   => /\ Pos(last.ret, pool[i].injector) > 0
                      /\ Pos(last.ret, pool[i].injector) < Pos(last.ret, pool[j].injector)

\* A chain resolved from a pool in which a later-registered record must
\* precede an earlier-registered one of its bucket.
C4_Witness ==
    /\ ResolutionCall /\ last.err = "none"
    /\ LET pool == GetInterceptors(interceptors, last.name).val IN
       \E i, j \in DOMAIN pool :
           /\ j < i
           /\ BucketRank(pool[i]) = BucketRank(pool[j])
           /\ MustPrecede(pool[i], pool[j])
           /\ Pos(last.ret, pool[i].injector) > 0
           /\ Pos(last.ret, pool[j].injector) > 0

\* ------------------------------------------------------------------------
\* C5
\* ------------------------------------------------------------------------

\* C5: in a successfully resolved chain every pre interceptor precedes every
\* mid interceptor and every mid interceptor precedes every post interceptor.
C5_BucketOrder ==
    (ResolutionCall /\ last.err = "none")
        => LET pool == GetInterceptors(interceptors, last.name).val IN
           \A i, j \in DOMAIN pool :
               BucketRank(pool[i]) < BucketRank(pool[j])
                   => /\ Pos(last.ret, pool[i].injector) > 0
                      /\ Pos(last.ret, pool[i].injector) < Pos(last.ret, pool[j].injector)

\* A chain resolved from a pool in which a record of a later bucket was
\* registered first and an after/before constraint points across the buckets
\* against the bucket order.
C5_Witness ==
    /\ ResolutionCall /\ last.err = "none"
    /\ LET pool == GetInterceptors(interceptors, last.name).val IN
       \E i, j \in DOMAIN pool :
           /\ j < i
           /\ BucketRank(pool[i]) < BucketRank(pool[j])
           /\ MustPrecede(pool[j], pool[i])
           /\ Pos(last.ret, pool[i].injector) > 0
           /\ Pos(last.ret, pool[j].injector) > 0

\* ------------------------------------------------------------------------
\* C6
\* ------------------------------------------------------------------------

\* C6: when the after/before constraints among the records of one bucket of
\* the pool contain a cycle (and the pool passes verification), resolving the
\* name raises the circular-dependency error, whatever else the bucket holds.
C6_CycleRaisesCircular ==
    ResolutionCall
        => LET pool == GetInterceptors(interceptors, last.name) IN
           (pool.err = "none" /\ VerifyInterceptors(pool.val) = "none" /\ HasCycle(pool.val))
               => last.err = "Circular"

\* ------------------------------------------------------------------------
\* C7
\* ------------------------------------------------------------------------

\* C7 as stated: whenever a record of the pool of a name names in conflicts an
\* id that is in the pool, resolving the name raises the conflict error.
C7_ConflictAlwaysConflictError ==
    ResolutionCall
        => LET pool == GetInterceptors(interceptors, last.name) IN
           (pool.err = "none" /\ HasConflict(pool.val)) => last.err = "Conflict"

\* C7 as amended: with a conflicting pair in the pool, resolving the name
\* fails, with the conflict error or - when a depends id is missing from the
\* pool too - possibly with the missing-dependency error; and the conflict
\* error is raised only while a conflicting pair is in the pool, so not after
\* a member of the only such pair has been removed.
C7_ConflictRaisesError ==
    ResolutionCall
        => LET pool == GetInterceptors(interceptors, last.name) IN
           /\ (pool.err = "none" /\ HasConflict(pool.val))
                  => /\ last.err \in {"Conflict", "MissingDependency"}
                     /\ ~HasMissing(pool.val) => last.err = "Conflict"
           /\ last.err = "Conflict" => (pool.err = "none" /\ HasConflict(pool.val))

\* A resolution that raised the conflict error for a pair registered under
\* different kinds of key.
C7_Witness ==
    /\ ResolutionCall /\ last.err = "Conflict"
    /\ LET pool == GetInterceptors(interceptors, last.name).val IN
       \E i, j \in DOMAIN pool :
           /\ pool[j].id \in Range(pool[i].conditions.conflicts)
           /\ pool[i].name # pool[j].name

\* ------------------------------------------------------------------------
\* C8
\* ------------------------------------------------------------------------

\* C8: whenever a record of the pool of a name names in depends an id that is
\* not in the pool, resolving the name raises the missing-dependency error.
\* (Stated for pools without a conflicting pair, whose error could come first.)
C8_MissingDependencyRaised ==
    ResolutionCall
        => LET pool == GetInterceptors(interceptors, last.name) IN
           (pool.err = "none" /\ HasMissing(pool.val) /\ ~HasConflict(pool.val))
               => last.err = "MissingDependency"

\* ------------------------------------------------------------------------
\* C9
\* ------------------------------------------------------------------------

\* C9: after a successful inject or remove under a predicate key no cache
\* entry remains for any name.
C9_PredicateMutationClearsCache ==
    (last.op \in {"inject", "remove"} /\ last.name \in Filters /\ last.err = "none")
        => \A n \in Names : interceptorsOrdered[n] = Undefined

\* ------------------------------------------------------------------------
\* C10
\* ------------------------------------------------------------------------

\* C10: a successful inject or remove under a concrete name n removes the
\* cache entry of n and leaves the cache entry of every other name, and the
\* array it refers to, unchanged.
C10_ConcreteMutationKeepsOtherEntries ==
    [][\A n \in Names, id \in InjectHooksId :
          (/\ last'.op \in {"inject", "remove"} /\ last'.name = n /\ last'.err = "none"
           /\ \/ \E beh \in {"sync", "async"}, c \in StoreConditions :
                    inject(n, id, Injector(n, id, beh), c)
              \/ remove(n, id))
          => /\ interceptorsOrdered'[n] = Undefined
             /\ \A m \in Names \ {n} :
                   /\ interceptorsOrdered'[m] = interceptorsOrdered[m]
                   /\ interceptorsOrdered[m] # Undefined
                          => arrays'[interceptorsOrdered[m]] = arrays[interceptorsOrdered[m]]
      ]_vars

\* An inject or remove under one name has succeeded while another name is
\* resolved.
C10_Witness ==
    /\ last.op \in {"inject", "remove"} /\ last.name \in Names /\ last.err = "none"
    /\ interceptorsOrdered[last.name] = Undefined
    /\ \E m \in Names \ {last.name} :
          /\ interceptorsOrdered[m] # Undefined
          /\ arrays[interceptorsOrdered[m]].items # <<>>

\* ------------------------------------------------------------------------
\* C11
\* ------------------------------------------------------------------------

\* C11: inject(key, id, ...) raises the duplicate-id error exactly when a
\* record with that id is registered under that same key; the same id under
\* another name or another predicate is accepted.
C11_DuplicateIdExactlySameKey ==
    [][\A name \in RegisterKeys, id \in RegisterIds :
          inject(name, id, Injector(name, id, "sync"), NoConditions)
              => (last'.err = "DuplicateId" <=> Registered(interceptors, name, id))
      ]_vars

\* ------------------------------------------------------------------------
\* C12
\* ------------------------------------------------------------------------

\* C12: remove(key, id) raises the not-found error whenever no record with
\* that id is registered under that key, whatever else the key holds.
C12_RemoveAbsentRaisesNotFound ==
    [][\A name \in RegisterKeys, id \in RegisterIds :
          (remove(name, id) /\ ~Registered(interceptors, name, id))
              => last'.err = "NotFound"
      ]_vars

\* ------------------------------------------------------------------------
\* C13
\* ------------------------------------------------------------------------

\* C13: validate(n) and emit(n) raise the duplicate-id error when a record
\* under the concrete name n and a record under a predicate accepting n have
\* the same id, and only then: a name the predicate rejects does not get the
\* error from that pair.
C13_SharedIdRaisesDuplicateId ==
    ResolutionCall
        => (last.err = "DuplicateId" <=> DuplicatePair(interceptors, last.name))

\* emit("x") has just failed with the duplicate-id error for a pair under "x"
\* and a predicate that rejects "y", while an emit("y") made under the same
\* store was resolved and scheduled.
C13_Witness ==
    /\ last.op = "emit" /\ last.name = "x" /\ last.err = "DuplicateId"
    /\ DuplicatePair(interceptors, "x")
    /\ \E e \in DOMAIN emissions : emissions[e].name = "y" /\ ~emissions[e].dirty

\* ------------------------------------------------------------------------
\* C17
\* ------------------------------------------------------------------------

\* C17: an emit of a name whose chain cannot be resolved from the store
\* throws and schedules nothing: the latest emit call fails when the pool of
\* its name has an error, and every emission scheduled since the store last
\* changed is of a name that resolves.
C17_UnresolvableEmitThrows ==
    /\ (last.op = "emit" /\ ResolveFresh(interceptors, last.name).err # "none")
           => last.err # "none"
    /\ \A e \in DOMAIN emissions :
           ~emissions[e].dirty => ResolveFresh(interceptors, emissions[e].name).err = "none"

\* ------------------------------------------------------------------------
\* C18
\* ------------------------------------------------------------------------

\* C18: the deferred stage of an emission never raises a resolution error,
\* whatever was injected or removed since its emit call.
C18_DeferredStageRaisesNoResolutionError ==
    \A e \in DOMAIN emissions : emissions[e].st # "threw"

\* ------------------------------------------------------------------------
\* C14
\* ------------------------------------------------------------------------

\* C14: once an interceptor that never calls its continuation has run for an
\* emission, nothing more is invoked for that emission - no later interceptor,
\* no handler, not done - and no error is raised.
C14_WithheldContinuationStopsEmission ==
    \A e \in DOMAIN emissions :
        LET em == emissions[e] IN
        \A i \in DOMAIN em.ran :
            BehOf(interceptors, em.name, em.ran[i]) = "halt"
                => /\ i = Len(em.ran)
                   /\ em.calls = 0 /\ em.got = <<>>
                   /\ em.err = "none"

\* ------------------------------------------------------------------------
\* C20
\* ------------------------------------------------------------------------

\* C20: the done callback of an emission whose chain completed has been
\* invoked exactly once, before every handler; an emission without one never
\* invokes it.
C20_DoneExactlyOnceAndFirst ==
    \A e \in DOMAIN emissions :
        LET em == emissions[e] IN
        /\ (em.done /\ em.calls > 0) => (Count("done", em.got) = 1 /\ em.got[1] = "done")
        /\ ~em.done => Count("done", em.got) = 0

\* ------------------------------------------------------------------------
\* C15
\* ------------------------------------------------------------------------

C19_ExactlyTheMatchingHandlers ==
    [][\A e \in DOMAIN emissions :
          emissions'[e].calls > emissions[e].calls
              => \A handler \in HandlerFns :
                    Count(handler, Invoked(e)) = Matching(handlers, emissions[e].name, handler)
      ]_vars

\* An emission of "y" dispatched to a handler while a handler is registered
\* under the predicate that rejects "y" and none under "x".
C19_Witness ==
    \E e \in DOMAIN emissions :
        /\ emissions[e].name = "y" /\ emissions[e].st = "dispatched"
        /\ Len(emissions[e].got) = 1
        /\ Len(EntryGet(handlers, "y")) = 1
        /\ Len(EntryGet(handlers, InjectHooksFilter)) = 1

\* ------------------------------------------------------------------------
\* C21
\* ------------------------------------------------------------------------

\* C21 as stated: a dispatch invokes two matching handlers in the order of
\* their registration, whatever kind of key each was registered under.  (Two
\* handlers are told apart by identity: stated for two different functions
\* of which each has one matching registration.)
C21_HandlersInRegistrationOrder ==
    [][\A e \in DOMAIN emissions :
          emissions'[e].calls > emissions[e].calls
              => \A i, j \in DOMAIN handlers :
                 \A k \in DOMAIN handlers[i].val, l \in DOMAIN handlers[j].val :
                    (/\ RegisteredBefore(i, k, j, l)
                     /\ Matches(handlers[i].val[k], emissions[e].name)
                     /\ Matches(handlers[j].val[l], emissions[e].name)
                     /\ handlers[i].val[k].handler # handlers[j].val[l].handler
                     /\ Matching(handlers, emissions[e].name, handlers[i].val[k].handler) = 1
                     /\ Matching(handlers, emissions[e].name, handlers[j].val[l].handler) = 1)
                        => /\ Pos(Invoked(e), handlers[i].val[k].handler) > 0
                           /\ Pos(Invoked(e), handlers[i].val[k].handler)
                                  < Pos(Invoked(e), handlers[j].val[l].handler)
      ]_vars

\* C21 as amended: a dispatch invokes the handlers registered under the exact
\* name first, in the order of their registration, and then the handlers
\* registered under accepting predicates, in the order of their registration.
C21_ExactThenPredicateHandlers ==
    [][\A e \in DOMAIN emissions :
          emissions'[e].calls > emissions[e].calls
              => \A i, j \in DOMAIN handlers :
                 \A k \in DOMAIN handlers[i].val, l \in DOMAIN handlers[j].val :
                    (/\ ExactThenRegistered(handlers, i, k, j, l)
                     /\ Matches(handlers[i].val[k], emissions[e].name)
                     /\ Matches(handlers[j].val[l], emissions[e].name)
                     /\ handlers[i].val[k].handler # handlers[j].val[l].handler
                     /\ Matching(handlers, emissions[e].name, handlers[i].val[k].handler) = 1
                     /\ Matching(handlers, emissions[e].name, handlers[j].val[l].handler) = 1)
                        => /\ Pos(Invoked(e), handlers[i].val[k].handler) > 0
                           /\ Pos(Invoked(e), handlers[i].val[k].handler)
                                  < Pos(Invoked(e), handlers[j].val[l].handler)
      ]_vars

\* An emission of "x" dispatched to two handlers, the one registered under
\* "x" first although the one under the predicate was registered before it.
C21_Witness ==
    /\ Len(handlers) = 2
    /\ handlers[1].key = InjectHooksFilter /\ handlers[2].key = "x"
    /\ Len(handlers[1].val) = 1 /\ Len(handlers[2].val) = 1
    /\ \E e \in DOMAIN emissions :
          /\ emissions[e].name = "x" /\ emissions[e].calls = 1
          /\ emissions[e].got = <<handlers[2].val[1].handler, handlers[1].val[1].handler>>
          /\ handlers[1].val[1].handler # handlers[2].val[1].handler

\* ------------------------------------------------------------------------
\* C22
\* ------------------------------------------------------------------------

\* C22: off(key, h) removes the earliest registration of h under key and no
\* other one; when h is not registered under key it raises the not-found
\* error and leaves the registrations as they are.
C22_OffRemovesEarliestOrRaises ==
    [][\A name \in OffKeys, handler \in OffHandlers :
          off(name, handler)
              => IF RegsOf(handlers, name, handler) # {}
                 THEN /\ last'.err = "none"
                      /\ SameRegs(handlers', WithoutFirstReg(handlers, name, handler))
                 ELSE /\ last'.err = "NotFound"
                      /\ SameRegs(handlers', handlers)
      ]_vars

\* ------------------------------------------------------------------------
\* C23
\* ------------------------------------------------------------------------

\* C23: when an emission matching key is dispatched while every registration
\* of h under key stems from a once(key, h) that has not fired, the dispatch
\* invokes h and leaves neither a wrapper of that once nor h registered under
\* key, so that no later emission invokes it.
C23_OnceFiresForOneEmission ==
    [][\A e \in DOMAIN emissions :
          emissions'[e].calls > emissions[e].calls
              => \A name \in ListenerKeys, handler \in ListenerHandlers :
                    (/\ KeyMatches(name, emissions[e].name)
                     /\ OnceRegs(handlers, name, handler) # {}
                     /\ Cardinality(RegsOf(handlers, name, handler))
                            = Cardinality(OnceRegs(handlers, name, handler))
                     /\ OncePairsWhole(handlers))
                        => /\ Pos(Invoked(e), handler) > 0
                           /\ RegsOf(handlers', name, handler) = {}
                           /\ OnceRegs(handlers', name, handler) = {}
      ]_vars

\* ------------------------------------------------------------------------
\* C24
\* ------------------------------------------------------------------------

\* C24: the dispatch of an emission matching key, made after once(key, h)
\* and then off(key, h), raises no error and invokes every handler as often
\* as it is registered under a matching key - h, no longer registered under
\* key, not for that once.
C24_RemovedOnceHandlerIsSilent ==
    [][\A e \in DOMAIN emissions :
          (/\ emissions'[e].calls > emissions[e].calls
           /\ \E name \in ListenerKeys, handler \in ListenerHandlers :
                 /\ KeyMatches(name, emissions[e].name)
                 /\ OnceRegs(handlers, name, handler) # {}
                 /\ RegsOf(handlers, name, handler) = {})
              => /\ emissions'[e].err = "none"
                 /\ \A handler \in ListenerHandlers :
                       Count(handler, Invoked(e))
                           = Matching(handlers, emissions[e].name, handler)
      ]_vars

\* ------------------------------------------------------------------------
\* C25
\* ------------------------------------------------------------------------

\* C25: validate invokes nothing of any emission; validate(n) throws when the
\* chain of n cannot be resolved from the store and otherwise leaves n with a
\* cache entry; validate() throws when that is so for a concrete name that
\* has interceptors and otherwise leaves each of them with a cache entry.
C25_ValidateResolvesWithoutRunning ==
    [][/\ \A n \in Names :
             validate(n)
                 => /\ emissions' = emissions
                    /\ ResolveFresh(interceptors, n).err # "none" => last'.err # "none"
                    /\ last'.err = "none" => interceptorsOrdered'[n] # Undefined
       /\ validateAll
             => /\ emissions' = emissions
                /\ \A n \in Names :
                      EntryIndex(interceptors, n) # 0
                          => /\ ResolveFresh(interceptors, n).err # "none"
                                    => last'.err # "none"
                             /\ last'.err = "none" => interceptorsOrdered'[n] # Undefined
      ]_vars

\* ------------------------------------------------------------------------
\* C26
\* ------------------------------------------------------------------------

\* C26: resolving a name ends as it would if every after / before reference
\* to a record of the pool in a different bucket were not there: with the same
\* error, or with the same order of the same interceptors.
C26_CrossBucketReferencesInert ==
    ResolutionCall
        => LET pool == GetInterceptors(interceptors, last.name).val
               r == ResolveFresh(WithoutCrossBucketRefs(interceptors, pool), last.name)
           IN /\ last.err = r.err
              /\ last.err = "none" => Tags(last.ret) = Tags(r.val)

\* A chain resolved from a pool in which two records of different buckets
\* each have to precede the other - a cycle, were they in one bucket.
C26_Witness ==
    /\ ResolutionCall /\ last.err = "none"
    /\ LET pool == GetInterceptors(interceptors, last.name).val IN
       /\ Len(last.ret) = Len(pool)
       /\ \E i, j \in DOMAIN pool :
             /\ BucketRank(pool[i]) # BucketRank(pool[j])
             /\ MustPrecede(pool[i], pool[j])
             /\ MustPrecede(pool[j], pool[i])

\* ------------------------------------------------------------------------
\* C27
\* ------------------------------------------------------------------------

\* C27: resolving a name raises the missing-dependency error only when a
\* depends id is in no record of the merged pool and the conflict error only
\* when a conflicts id is in some record of it, whatever the bucket of that
\* record and whether it is registered under the name or under an accepting
\* predicate; and it raises one of the two whenever either is the case.
C27_DependsConflictsOverWholePool ==
    ResolutionCall
        => /\ last.err = "MissingDependency" => DependsUnmet(interceptors, last.name)
           /\ last.err = "Conflict" => ConflictMet(interceptors, last.name)
           /\ (DependsUnmet(interceptors, last.name) \/ ConflictMet(interceptors, last.name))
                  => last.err \in {"MissingDependency", "Conflict"}

\* A chain resolved from a pool in which a record registered under the name
\* depends on a record of another bucket registered under a predicate.
C27_Witness ==
    /\ ResolutionCall /\ last.err = "none"
    /\ \E rec, dep \in PoolRecords(interceptors, last.name) :
          /\ dep.id \in Range(rec.conditions.depends)
          /\ rec.name \in Names /\ dep.name \in Filters
          /\ BucketRank(rec) # BucketRank(dep)

\* ------------------------------------------------------------------------
\* C28
\* ------------------------------------------------------------------------

\* C28: every interceptor, every handler and the done callback invoked for an
\* emission was given the name passed to the emit call of that emission.
C28_NameArgumentIsEmittedName ==
    \A e \in DOMAIN emissions :
        /\ Len(emissions[e].args) = Len(emissions[e].ran) + Len(emissions[e].got)
        /\ \A i \in DOMAIN emissions[e].args : emissions[e].args[i] = emissions[e].name

\* An emission of "y" ran an interceptor and a handler that were both
\* registered under the predicate accepting every name, after a later emit of
\* the other name had been made.
C28_Witness ==
    /\ Len(emissions) = 2
    /\ emissions[1].name = "y" /\ emissions[2].name = "x"
    /\ emissions[1].ran = <<"a">> /\ emissions[1].got = <<"h1">>
    /\ emissions[2].st = "timer"
    /\ EntryGet(interceptors, InjectHooksFilter) # <<>>
    /\ EntryGet(handlers, InjectHooksFilter) # <<>>

\* ------------------------------------------------------------------------
\* C29
\* ------------------------------------------------------------------------

\* C29: the record a successful inject stores has, for each of after, before,
\* conflicts and depends, the one-element list of the id when a single id
\* was given, the list itself when a list was given and the empty list when
\* the field was omitted; its order is the one given, or mid when omitted.
C29_ConstraintsNormalized ==
    [][\A id \in NormalizeIds, c \in NormalizeConditions :
          (/\ last'.op = "inject" /\ last'.err = "none"
           /\ inject("x", id, Injector("x", id, "sync"), c))
              => LET stored == MapGet(EntryGet(interceptors', "x"), id).conditions IN
                 /\ \A f \in ConditionFields :
                       /\ c[f].t = "scalar" => stored[f] = <<c[f].v[1]>>
                       /\ c[f].t = "array" => stored[f] = c[f].v
                       /\ c[f].t = "undefined" => stored[f] = <<>>
                 /\ stored.order = IF c.order = "undefined" THEN "mid" ELSE c.order
      ]_vars

\* The store holds a record in bucket mid whose after is a one-element list,
\* whose before is a two-element list and whose conflicts is empty, beside a
\* record with four empty lists.
C29_Witness ==
    \E i, j \in DOMAIN EntryGet(interceptors, "x") :
        LET one == EntryGet(interceptors, "x")[i].conditions
            other == EntryGet(interceptors, "x")[j].conditions
        IN /\ one.order = "mid" /\ one.after = <<"a">> /\ one.before = <<"b", "c">>
           /\ one.conflicts = <<>> /\ one.depends = <<"c">>
           /\ other.after = <<>> /\ other.before = <<>> /\ other.conflicts = <<>>
           /\ other.depends = <<>> /\ other.order = "post"

\* ------------------------------------------------------------------------
\* C30
\* ------------------------------------------------------------------------

\* C30: every resolution of a pool returns: the passes of the ordering
\* worklist stop after a pass that emits no record, with an order or with the
\* circular-dependency error.
C30_ResolutionTerminates ==
    ResolutionCall => last.err # "Hang"

\* ------------------------------------------------------------------------
\* C31
\* ------------------------------------------------------------------------

\* C31: in every state, the array a cache entry of a name refers to is the
\* chain a fresh resolution of the name from the interceptor store returns.
C31_CacheIsFreshResolution ==
    \A n \in Names :
        interceptorsOrdered[n] # Undefined
            => /\ ResolveFresh(interceptors, n).err = "none"
               /\ arrays[interceptorsOrdered[n]].items = ResolveFresh(interceptors, n).val

\* ------------------------------------------------------------------------
\* C32
\* ------------------------------------------------------------------------

\* C32: while an emission of a name waits for an interceptor to call its
\* continuation and a later emission of the name has started its chain, each
\* of the two has run the interceptors of the chain from the first one on, in
\* order, each with the payload of its own emission as transformed so far, and
\* the later one, if it has dispatched, has run the whole chain and handed on
\* its own payload transformed by every interceptor.
C32_EmissionsInFlightIndependent ==
    \A d, e \in DOMAIN emissions :
        (/\ d < e /\ emissions[d].name = emissions[e].name
         /\ emissions[d].st = "waiting" /\ emissions[e].st # "timer")
            => LET chain == Tags(ResolveFresh(interceptors, emissions[e].name).val) IN
               /\ IsPrefix(emissions[d].ran, chain)
               /\ emissions[d].parked = <<emissions[d].data \o emissions[d].ran>>
               /\ IsPrefix(emissions[e].ran, chain)
               /\ emissions[e].st = "waiting"
                      => emissions[e].parked = <<emissions[e].data \o emissions[e].ran>>
               /\ emissions[e].st = "dispatched"
                      => /\ emissions[e].ran = chain
                         /\ emissions[e].cur = emissions[e].data \o chain

\* ------------------------------------------------------------------------
\* C33
\* ------------------------------------------------------------------------

\* C33: once an emission of a name has been halted by an interceptor that
\* withheld its continuation, a later emission of the name that has come to
\* rest has run the chain from its first interceptor up to the one that
\* withholds, and is halted there too.  (Stated for chains in which no
\* interceptor calls its continuation twice; the store does not change.)
C33_HaltedEmissionLeavesChainWhole ==
    \A d, e \in DOMAIN emissions :
        LET chain == ResolveFresh(interceptors, emissions[e].name).val IN
        (/\ d < e /\ emissions[d].name = emissions[e].name
         /\ emissions[d].st = "halted" /\ Ended(emissions[e])
         /\ \A i \in DOMAIN chain : chain[i].beh # "twice")
            => /\ emissions[e].st = "halted"
               /\ emissions[e].ran # <<>>
               /\ emissions[e].ran[1] = chain[1].tag
               /\ emissions[e].ran = Tags(SubSeq(chain, 1, FirstHalt(chain)))

\* ------------------------------------------------------------------------
\* C34
\* ------------------------------------------------------------------------

\* C34: for every emission the completion callback (done and the handlers)
\* has run at most once and every interceptor has run at most once, whatever
\* the interceptors do with their continuation.
C34_DispatchAndInterceptorsAtMostOnce ==
    \A e \in DOMAIN emissions :
        /\ emissions[e].calls <= 1
        /\ \A id \in InjectHooksId : Count(id, emissions[e].ran) <= 1

\* ------------------------------------------------------------------------
\* C35
\* ------------------------------------------------------------------------

\* C35: a validate or emit of a name that raises a resolution error found no
\* cache entry for the name and leaves none; and while a name has no cache
\* entry and its pool does not resolve, every step that leaves the
\* interceptor store as it is leaves the name without a cache entry, and
\* every validate or emit of the name raises the error of its pool.
C35_FailedResolutionStaysUnresolved ==
    [][\A n \in Names :
          /\ (/\ last'.op \in {"validate", "emit"} /\ last'.name = n /\ last'.err # "none"
              /\ validate(n) \/ emit(n, <<"zero">>, FALSE))
                 => /\ interceptorsOrdered[n] = Undefined
                    /\ interceptorsOrdered'[n] = Undefined
                    /\ last'.err = ResolveFresh(interceptors, n).err
          /\ (/\ interceptorsOrdered[n] = Undefined
              /\ interceptors' = interceptors
              /\ ResolveFresh(interceptors, n).err # "none")
                 => /\ interceptorsOrdered'[n] = Undefined
                    /\ (validate(n) \/ emit(n, <<"zero">>, FALSE))
                           => last'.err = ResolveFresh(interceptors, n).err
                    /\ \A e \in DOMAIN emissions \cap DOMAIN emissions' :
                          (/\ emissions[e].name = n
                           /\ emissions[e].st = "timer" /\ emissions'[e].st # "timer")
                              => /\ emissions'[e].st = "threw"
                                 /\ emissions'[e].err = ResolveFresh(interceptors, n).err
      ]_vars

\* Two resolutions of "x" have failed on the same store with the same error:
\* the deferred stage of an emission made before the pool stopped resolving,
\* and the latest call, a validate or an emit.
C35_Witness ==
    /\ last.op \in {"validate", "emit"} /\ last.name = "x" /\ last.err = "MissingDependency"
    /\ interceptorsOrdered["x"] = Undefined
    /\ \E e \in DOMAIN emissions :
          /\ emissions[e].name = "x" /\ emissions[e].st = "threw"
          /\ emissions[e].err = last.err

\* ------------------------------------------------------------------------
\* C36
\* ------------------------------------------------------------------------

\* C36: an inject that raises the duplicate-id error and a remove that raises
\* the not-found error leave the interceptor store and every cache entry as
\* they were.
C36_FailedMutationChangesNothing ==
    [][\A name \in RegisterKeys, id \in RegisterIds :
          (/\ last'.op \in {"inject", "remove"} /\ last'.err # "none"
           /\ \/ inject(name, id, Injector(name, id, "sync"), NoConditions)
              \/ remove(name, id))
              => /\ interceptors' = interceptors
                 /\ interceptorsOrdered' = interceptorsOrdered
      ]_vars

\* ------------------------------------------------------------------------
\* C37
\* ------------------------------------------------------------------------

\* C37: no key of the interceptor store maps to an empty record set; a remove
\* of the only record of a key leaves the store without the key; a remove on
\* a key the store does not have raises the not-found error; and validate()
\* resolves no name that is not a key of the store.
C37_NoKeyWithoutRecords ==
    [][/\ \A i \in DOMAIN interceptors' : interceptors'[i].val # <<>>
       /\ \A name \in DropKeys, id \in DropIds :
             remove(name, id)
                 => /\ Tags(Injectors(EntryGet(interceptors, MapKey(name)))) = <<id>>
                           => /\ last'.err = "none"
                              /\ EntryIndex(interceptors', MapKey(name)) = 0
                    /\ EntryIndex(interceptors, MapKey(name)) = 0
                           => /\ last'.err = "NotFound"
                              /\ interceptors' = interceptors
       /\ validateAll
             => \A n \in Names :
                   EntryIndex(interceptors, n) = 0
                       => interceptorsOrdered'[n] = interceptorsOrdered[n]
      ]_vars

\* The only record of "x" has been removed while "y" keeps one: the store has
\* no key "x", a validate() made before left "x" without a cache entry.
C37_Witness ==
    /\ last.op = "remove" /\ last.name = "x" /\ last.err = "none"
    /\ EntryIndex(interceptors, "x") = 0
    /\ EntryIndex(interceptors, "y") # 0
    /\ interceptorsOrdered["y"] # Undefined

\* ------------------------------------------------------------------------
\* C38
\* ------------------------------------------------------------------------

\* C38: resolving a pool that passes verification raises the
\* circular-dependency error only when the after / before constraints among
\* the records of one of its buckets contain a cycle; when no bucket has one
\* the resolution succeeds, and the chain is a rearrangement of the pre
\* records, followed by one of the mid records, followed by one of the post
\* records.
C38_CircularOnlyWithoutLinearExtension ==
    ResolutionCall
        => LET pool == GetInterceptors(interceptors, last.name)
               sep == SeparateInterceptors(pool.val)
               npre == Len(sep.pre)
               nmid == Len(sep.mid)
           IN /\ last.err = "Circular" => HasCycle(pool.val)
              /\ (/\ pool.err = "none" /\ VerifyInterceptors(pool.val) = "none"
                  /\ ~HasCycle(pool.val))
                     => /\ last.err = "none"
                        /\ Len(last.ret) = Len(pool.val)
                        /\ IsPermutation(SubSeq(last.ret, 1, npre), Injectors(sep.pre))
                        /\ IsPermutation(SubSeq(last.ret, npre + 1, npre + nmid),
                                         Injectors(sep.mid))
                        /\ IsPermutation(SubSeq(last.ret, npre + nmid + 1, Len(last.ret)),
                                         Injectors(sep.post))

\* A chain resolved from a bucket of three records whose constraints leave
\* one order only, the reverse of the registration order, found in three
\* passes.
C38_Witness ==
    /\ ResolutionCall /\ last.err = "none"
    /\ LET pool == GetInterceptors(interceptors, last.name).val IN
       /\ Len(pool) = 3
       /\ \A i \in DOMAIN pool : BucketRank(pool[i]) = BucketRank(pool[1])
       /\ MustPrecede(pool[3], pool[2]) /\ MustPrecede(pool[2], pool[1])
       /\ last.ret = <<pool[3].injector, pool[2].injector, pool[1].injector>>

\* ------------------------------------------------------------------------
\* C39
\* ------------------------------------------------------------------------

\* C39: the step in which the chain of an emission completes invokes, in
\* order, exactly the handlers that are registered for its name when that
\* step begins: the ones registered since the emit call included, the ones a
\* handler registers during the dispatch not included, the ones a handler
\* removes during the dispatch included.
C39_HandlersSnapshotAtCompletion ==
    [][\A e \in DOMAIN emissions :
          emissions'[e].calls > emissions[e].calls
              => /\ Invoked(e) = HandlerList(handlers, emissions[e].name, emissions[e].done)
                 /\ emissions'[e].err = "none"
      ]_vars

\* The one emission made was dispatched to the wrapper of a once, to "hon",
\* which the wrapper had removed by then, and to "h1", which can only have
\* been registered after the emit call; "h2", which "hon" registered during
\* the dispatch, was not invoked.
C39_Witness ==
    /\ Len(emissions) = 1
    /\ emissions[1].got = <<OnceHandler("x", "hon", 1), "hon", "h1">>
    /\ EntryGet(handlers, "x") = <<[name |-> "x", handler |-> "h1"],
                                   [name |-> "x", handler |-> "h2"]>>

\* ------------------------------------------------------------------------
\* C40
\* ------------------------------------------------------------------------

====
